---- MODULE Spec2Model ----
(***************************************************************************)
(* A model of arm64-pgtable-tool (package pgtt).                           *)
(*                                                                         *)
(*   SpecMmu  the module-level statements of pgtt/mmu.py, run once at       *)
(*            import for every command line args.py accepts: the geometry  *)
(*            of the translation tables (entries per table, index bits,    *)
(*            starting level).                                             *)
(*   Spec     pgtt/table.py: root = Table() followed by root.map(r) for    *)
(*            every region of the memory map, executed statement block by  *)
(*            statement block with an explicit call stack, followed by     *)
(*            the import of pgtt/codegen.py.  args.py defines no tg_str:   *)
(*            the reads of args.tg_str on table.py line 143 and codegen.py *)
(*            line 151 raise AttributeError.                               *)
(*   SpecPrepareNext  Table.prepare_next called directly on the tables it  *)
(*            allocates, starting from the root, also on indices that are  *)
(*            taken (which no run of Spec gets to).                        *)
(*   SpecMmuOn  the routine mmu_on that the template of pgtt/codegen.py    *)
(*            (lines 161-238) words, run by the cores of one machine on    *)
(*            the tables the import left in Table._allocated; FairMmuOn is *)
(*            SpecMmuOn with every core executing its next instruction.    *)
(*                                                                         *)
(* Numbers.  Python integers are unbounded and the tool's addresses reach  *)
(* 2^58; TLC's integers are 32 bits wide.  Sizes that are powers of two    *)
(* are therefore also carried as exponents (ChunkBits, SpanBits), and the  *)
(* addresses, lengths and chunk sizes of Spec are stored in multiples of   *)
(* a unit of 2^UnitBits bytes:    the chunk of the deepest level the       *)
(* explored memory maps descend to.  Every region address and length the   *)
(* model draws is a multiple of that unit (and so of the granule, as       *)
(* mmap.py guarantees), so //, %, +, - and the comparisons of table.py     *)
(* give the same results on the scaled numbers as on the byte values.      *)
(***************************************************************************)
EXTENDS Integers, Sequences, FiniteSets, TLC

VARIABLES
    args,        \* pgtt.args: the values table.py and mmu.py read, [tg, tsz, el] (tg in bytes)
    mmu,         \* pgtt.mmu module namespace: name -> value, grows as mmu.py runs
    mmu_pc,      \* next module-level statement of mmu.py
    memory_map,  \* history: mmap.regions as mmap.py built it, before any map call
    regions,     \* pgtt.mmap.regions: the Region objects, ascending by address
    allocated,   \* Table._allocated: the Table objects in allocation order
    stack,       \* the active Table.map calls, innermost last
    next_region, \* position in the list comprehension of table.py line 203
    status,      \* "mapping", "mapped", "generated", or the exception that ended the run
    rewritten,   \* history: some entries[idx] = ... assignment hit an index already present
    asm,         \* the blocks codegen._mk_asm has emitted, in emission order
    call,        \* the latest direct call of Table.prepare_next: its number, arguments and outcome
    cpu,         \* the cores running the routine mmu_on: registers, monitor, event register
    mem          \* the memory the routine shares: mmu_lock, mmu_init, the translation tables

vars == <<args, mmu, mmu_pc, memory_map, regions, allocated, stack, next_region, status, rewritten, asm,
          call, cpu, mem>>

(***************************************************************************)
(* Bounds of the model.                                                    *)
(***************************************************************************)
\* most regions in one explored memory map
MaxRegions == 2
\* largest exponent of a scaled address: the root table's span stays below 2^MaxBits units
MaxBits == 30
\* direct calls of Table.prepare_next in one run
MaxCalls == 3
\* most cores that run mmu_on
MaxCores == 2

(***************************************************************************)
(* Arithmetic helpers.                                                     *)
(***************************************************************************)
RECURSIVE Pow2(_)
Pow2(n) == IF n <= 0 THEN 1 ELSE 2 * Pow2(n - 1)

\* int(math.log(n, 2)) for the powers of two mmu.py applies it to
RECURSIVE Log2(_)
Log2(n) == IF n <= 1 THEN 0 ELSE 1 + Log2(n \div 2)

Min(a, b) == IF a <= b THEN a ELSE b

\* no direct call of prepare_next made yet
NoCall == [n |-> 0, t |-> 0, idx |-> 0, va |-> <<>>, hit |-> FALSE, entered |-> 0]

(***************************************************************************)
(* pgtt/args.py                                                            *)
(***************************************************************************)
TgChoices == {"4K", "16K", "64K"}
TszChoices == {32, 36, 40, 48}
ElChoices == {1, 2, 3}

\* tg = {"4K":4*1024, "16K":16*1024, "64K":64*1024}[_args.tg]
TgBytes(tg_str) ==
    CASE tg_str = "4K" -> 4 * 1024
      [] tg_str = "16K" -> 16 * 1024
      [] tg_str = "64K" -> 64 * 1024

\* the values of pgtt.args after lines 73-80 for the command line -tg tg_str
\* -tsz tsz -el el that the modelled statements compute with: el, tg and tsz
\* (table addresses are kept relative to ttb)
Args(tg_str, tsz, el) == [tg |-> TgBytes(tg_str), tsz |-> tsz, el |-> el]

\* every name of the namespace of pgtt.args: the attributes any module has
\* and the names lines 12-80 bind.  The string given to -tg stays in
\* _args.tg: no name tg_str is bound.
ArgsNames ==
    {"__builtins__", "__cached__", "__doc__", "__file__", "__loader__", "__name__", "__package__",
     "__spec__", "argparse", "_parser", "_args",
     "i", "o", "ttb", "el", "tg", "tsz", "verbose", "debug"}

\* args.<name> is defined: a read of any other name raises AttributeError
ArgsHas(name) == name \in ArgsNames

AllArgs == {Args(g, z, e) : g \in TgChoices, z \in TszChoices, e \in ElChoices}

(***************************************************************************)
(* pgtt/mmu.py: geometry                                                   *)
(***************************************************************************)
EntriesPerTable(a) == a.tg \div 8

BlockOffsetBits(a) == Log2(a.tg)

\* m: the namespace so far
TableIdxBits(m) == Log2(m.entries_per_table)

\* start_level as first assigned on line 40
StartLevelRaw(a, m) == 3 - (a.tsz - m.block_offset_bits) \div m.table_idx_bits

\* the test of line 41: the address space exactly fills the tables of the levels used
StartLevelNeverFits(a, m) == FALSE

StartLevelFits(a, m) == (a.tsz - m.block_offset_bits) % m.table_idx_bits = 0

\* lines 41-42
StartLevelCorrected(a, m) == IF StartLevelFits(a, m) THEN m.start_level + 1 ELSE m.start_level

\* the namespace of pgtt.mmu once the geometry statements have run
MmuModule(a) ==
    LET m1 == [entries_per_table |-> EntriesPerTable(a)]
        m2 == m1 @@ [block_offset_bits |-> BlockOffsetBits(a)]
        m3 == m2 @@ [table_idx_bits |-> TableIdxBits(m2)]
        m4 == m3 @@ [start_level |-> StartLevelRaw(a, m3)]
    IN  [m4 EXCEPT !.start_level = StartLevelCorrected(a, m4)]

\* log2 of Table.chunk in bytes: args.tg << ((3 - level) * mmu.table_idx_bits)
ChunkBits(level) == Log2(args.tg) + (3 - level) * mmu.table_idx_bits

\* log2 of the bytes a table of this level spans: mmu.entries_per_table * chunk,
\* the bound of the assertion on table.py line 69
SpanBits(level) == Log2(mmu.entries_per_table) + ChunkBits(level)

(***************************************************************************)
(* pgtt/mmu.py: Bitfield, Register, _tcr.  A register value reaches bit 34 *)
(* and is held as the set of its one bits; | is the union.  A Python value *)
(* is a record of its type and, for an int, its bits.                      *)
(***************************************************************************)
PyNone == [type |-> "NoneType", bits |-> {}]
PyInt(bits) == [type |-> "int", bits |-> bits]

\* the one bits of a field value (the values of mmu.py are below 2^8)
ValueBits(v) == {k \in 0..7 : (v \div Pow2(k)) % 2 = 1}

\* Bitfield.__init__: self.value = (value & mask) << lo, mask = (1 << (hi - lo + 1)) - 1
Bitfield(hi, lo, value) == [value |-> {lo + k : k \in {j \in ValueBits(value) : j <= hi - lo}}]

\* Register.__init__, Register.field, Register.res1
Register(name) == [name |-> name, fields |-> <<>>, res1s |-> <<>>]
RegisterField(reg, hi, lo, name, value) ==
    [reg EXCEPT !.fields = (name :> Bitfield(hi, lo, value)) @@ [n \in DOMAIN @ \ {name} |-> @[n]]]
RegisterRes1(reg, pos) == [reg EXCEPT !.res1s = Append(@, Bitfield(pos, pos, 1))]

\* val at line 102 once the loop of Register.value has run: every field and RES1 bit or-ed
RegisterVal(reg) ==
    UNION ({reg.fields[n].value : n \in DOMAIN reg.fields}
           \cup {reg.res1s[i].value : i \in DOMAIN reg.res1s})

\* Register.value(): lines 100-104 compute and log val; the function ends
\* without a return statement
RegisterValue(reg) == PyNone

\* [4*1024, 16*1024, 64*1024].index(args.tg)
Tg0Index(a) == CASE a.tg = 4 * 1024 -> 0 [] a.tg = 16 * 1024 -> 1 [] a.tg = 64 * 1024 -> 2

\* {32:0, 36:1, 40:2, 48:5}[args.tsz]
PsOfTsz(tsz) == CASE tsz = 32 -> 0 [] tsz = 36 -> 1 [] tsz = 40 -> 2 [] tsz = 48 -> 5

\* line 111: f"tcr_el{args.el}"
TcrName(el) == CASE el = 1 -> "tcr_el1" [] el = 2 -> "tcr_el2" [] el = 3 -> "tcr_el3"

\* the Register object of _tcr at line 137, before value() is called.  Line
\* 135 assigns the integer to the ps Bitfield's value attribute as it is.
TcrRegister(a) ==
    LET r0 == Register(TcrName(a.el))
        r1 == RegisterField(r0, 5, 0, "t0sz", 64 - a.tsz)
        r2 == RegisterField(r1, 9, 8, "irgn0", 1)
        r3 == RegisterField(r2, 11, 10, "orgn0", 1)
        r4 == RegisterField(r3, 13, 12, "sh0", 3)
        r5 == RegisterField(r4, 15, 14, "tg0", Tg0Index(a))
        r6 == RegisterRes1(r5, 23)
        r7 == IF a.el = 1 THEN RegisterField(r6, 34, 32, "ps", 0)
              ELSE RegisterRes1(RegisterField(r6, 18, 16, "ps", 0), 31)
    IN  [r7 EXCEPT !.fields["ps"].value = ValueBits(PsOfTsz(a.tsz))]

(***************************************************************************)
(* SpecMmu: mmu.py's module-level statements, one per step.                *)
(***************************************************************************)
MmuInit ==
    /\ args \in AllArgs
    /\ mmu = <<>>
    /\ mmu_pc = "entries_per_table"
    /\ memory_map = <<>>
    /\ regions = <<>>
    /\ allocated = <<>>
    /\ stack = <<>>
    /\ next_region = 1
    /\ status = "importing"
    /\ rewritten = FALSE
    /\ asm = <<>>
    /\ call = NoCall
    /\ cpu = <<>>
    /\ mem = <<>>

MmuUnchanged ==
    UNCHANGED <<args, memory_map, regions, allocated, stack, next_region, status, rewritten, asm, call,
                cpu, mem>>

MmuEntriesPerTable ==
    /\ mmu_pc = "entries_per_table"
    /\ mmu' = mmu @@ [entries_per_table |-> EntriesPerTable(args)]
    /\ mmu_pc' = "block_offset_bits"
    /\ MmuUnchanged

MmuBlockOffsetBits ==
    /\ mmu_pc = "block_offset_bits"
    /\ mmu' = mmu @@ [block_offset_bits |-> BlockOffsetBits(args)]
    /\ mmu_pc' = "table_idx_bits"
    /\ MmuUnchanged

MmuTableIdxBits ==
    /\ mmu_pc = "table_idx_bits"
    /\ mmu' = mmu @@ [table_idx_bits |-> TableIdxBits(mmu)]
    /\ mmu_pc' = "start_level"
    /\ MmuUnchanged

MmuStartLevel ==
    /\ mmu_pc = "start_level"
    /\ mmu' = mmu @@ [start_level |-> StartLevelRaw(args, mmu)]
    /\ mmu_pc' = "start_level_fits"
    /\ MmuUnchanged

MmuStartLevelCorrect ==
    /\ mmu_pc = "start_level_fits"
    /\ mmu' = [mmu EXCEPT !.start_level = StartLevelCorrected(args, mmu)]
    /\ mmu_pc' = "tcr"
    /\ MmuUnchanged

\* line 139: tcr = _tcr(); tcr_logged is the value the debug line of
\* Register.value prints (line 104)
MmuTcr ==
    /\ mmu_pc = "tcr"
    /\ mmu' = mmu @@ [tcr |-> RegisterValue(TcrRegister(args)),
                      tcr_logged |-> PyInt(RegisterVal(TcrRegister(args)))]
    /\ mmu_pc' = "done"
    /\ MmuUnchanged

MmuNext ==
    \/ MmuEntriesPerTable
    \/ MmuBlockOffsetBits
    \/ MmuTableIdxBits
    \/ MmuStartLevel
    \/ MmuStartLevelCorrect
    \/ MmuTcr

SpecMmu == MmuInit /\ [][MmuNext]_vars

(***************************************************************************)
(* C3 as claimed: for every (granule, tsz, EL) the start level is in       *)
(* [0,3] and the root table spans exactly 2^tsz bytes.                     *)
(***************************************************************************)
C3_SpanExactlyTsz ==
    mmu_pc = "done" =>
        /\ mmu.start_level \in 0..3
        /\ SpanBits(mmu.start_level) = args.tsz

(***************************************************************************)
(* C3 amended: the start level is in [0,3] and the root table spans a      *)
(* power of two of at least 2^tsz and less than 2^(tsz + index bits)       *)
(* bytes; it is exactly 2^tsz only when tsz - offset bits is a multiple of *)
(* the index bits (4K with tsz 48, 16K with tsz 36).                       *)
(***************************************************************************)
C3_SpanCoversTsz ==
    mmu_pc = "done" =>
        /\ mmu.start_level \in 0..3
        /\ SpanBits(mmu.start_level) >= args.tsz
        /\ SpanBits(mmu.start_level) < args.tsz + mmu.table_idx_bits
        /\ (SpanBits(mmu.start_level) = args.tsz
              <=> (args.tsz - mmu.block_offset_bits) % mmu.table_idx_bits = 0)

\* the correction of line 42 has been applied and the span is exactly 2^tsz
C3_Witness ==
    /\ mmu_pc = "done"
    /\ args.tg = 4 * 1024 /\ args.tsz = 48
    /\ mmu.start_level = 0
    /\ SpanBits(mmu.start_level) = args.tsz

(***************************************************************************)
(* C11: the TCR value mmu.py produces is an integer whose one bits are     *)
(* exactly those of T0SZ = 64 - tsz in [5:0], IRGN0 = 1 in [9:8], ORGN0 =  *)
(* 1 in [11:10], SH0 = 3 in [13:12], TG0 in [15:14] (4K 0, 64K 1, 16K 2),  *)
(* PS (32: 0, 36: 1, 40: 2, 48: 5) in [34:32] at EL1 and [18:16] at EL2    *)
(* and EL3, bit 23, and bit 31 at EL2 and EL3; every field stays inside    *)
(* its own bit range.                                                      *)
(***************************************************************************)
\* the bits of value v placed from bit lo on
FieldBits(lo, v) == {lo + k : k \in ValueBits(v)}

ClaimedTg0(a) == CASE a.tg = 4 * 1024 -> 0 [] a.tg = 64 * 1024 -> 1 [] a.tg = 16 * 1024 -> 2

\* the fields of the claim: <<hi, lo, value>>
ClaimedTcrFields(a) ==
    {<<5, 0, 64 - a.tsz>>, <<9, 8, 1>>, <<11, 10, 1>>, <<13, 12, 3>>, <<15, 14, ClaimedTg0(a)>>,
     IF a.el = 1 THEN <<34, 32, PsOfTsz(a.tsz)>> ELSE <<18, 16, PsOfTsz(a.tsz)>>}

ClaimedTcrBits(a) ==
    UNION {FieldBits(f[2], f[3]) : f \in ClaimedTcrFields(a)}
        \cup {23} \cup (IF a.el = 1 THEN {} ELSE {31})

C11_TcrValue ==
    mmu_pc = "done" =>
        /\ mmu.tcr = PyInt(ClaimedTcrBits(args))
        /\ \A f \in ClaimedTcrFields(args) : FieldBits(f[2], f[3]) \subseteq f[2]..f[1]

\* C11 for the value computed inside Register.value (and logged), whatever is returned
C11_TcrLoggedValue == mmu_pc = "done" => mmu.tcr_logged = PyInt(ClaimedTcrBits(args))

(***************************************************************************)
(* pgtt/mmap.py: Region                                                    *)
(***************************************************************************)
MemoryTypes == {"device", "rw_data", "code"}

\* Region(lineno, label, addr, length, memory_type), num_contig = 1 (the label,
\* which only the printed report reads, is left out)
Region(lineno, addr, length, memory_type) ==
    [lineno |-> lineno, addr |-> addr, length |-> length,
     memory_type |-> memory_type, num_contig |-> 1]

\* Region.copy with addr= and length= overrides (absent overrides repeat the field):
\* a new Region from the five constructor fields, num_contig back at the class default
RegionCopy(r, addr, length) == Region(r.lineno, addr, length, r.memory_type)

(***************************************************************************)
(* The unit of the scaled addresses and the explored memory maps.          *)
(***************************************************************************)
\* how many table levels fit below 2^MaxBits units
ModelLevels == MaxBits \div mmu.table_idx_bits

\* the deepest table level the explored regions descend to
UnitLevel == Min(3, mmu.start_level + ModelLevels - 1)

UnitBits == ChunkBits(UnitLevel)

\* Table.chunk (args.tg << ((3 - level) * mmu.table_idx_bits)), in units
Chunk(level) == Pow2(ChunkBits(level) - UnitBits)

\* Region starts and ends around the chunk boundaries of the level above the
\* unit level (c units a chunk).  The light ones leave partial chunks of one or
\* two units; the heavy ones leave partial chunks of up to c - 1 units; the
\* top ones lie around the first chunk boundary two levels above the unit
\* level, where the model has such a level.
LightStarts == LET c == mmu.entries_per_table IN {0, c - 2, c - 1, c, 2 * c}
LightEnds == LET c == mmu.entries_per_table IN {1, 2, c, c + 1, 2 * c, 2 * c + 1, 2 * c + 2, 3 * c}

HeavyStarts == LET c == mmu.entries_per_table IN {1, c + 1}
HeavyEnds == LET c == mmu.entries_per_table IN {c - 1, 2 * c - 1}

TopStarts ==
    LET c == mmu.entries_per_table
    IN  IF UnitLevel - mmu.start_level >= 2 THEN {c * c - 1, c * c} ELSE {}
TopEnds ==
    LET c == mmu.entries_per_table
    IN  IF UnitLevel - mmu.start_level >= 2 THEN {c * c, c * c + 1, 2 * c * c} ELSE {}

\* [start, end) of the regions of a list of one, of a longer list
SingleBounds ==
    {p \in (LightStarts \cup HeavyStarts \cup TopStarts) \X (LightEnds \cup HeavyEnds \cup TopEnds) :
        p[1] < p[2]}
ListBounds == {p \in LightStarts \X LightEnds : p[1] < p[2]}

\* memory types of a list: the first is any type, each next one the same type
\* or, throughout, the following type
NextType(t) == CASE t = "device" -> "rw_data" [] t = "rw_data" -> "code" [] t = "code" -> "device"

RECURSIVE TypeList(_, _, _)
TypeList(t, same, n) ==
    IF n = 0 THEN <<>>
    ELSE <<t>> \o TypeList(IF same THEN t ELSE NextType(t), same, n - 1)

\* ascending, non-overlapping [start, end) pairs: n of them from lo on
RECURSIVE Bounds(_, _, _)
Bounds(n, lo, from) ==
    IF n = 0 THEN {<<>>}
    ELSE UNION {{<<p>> \o rest : rest \in Bounds(n - 1, p[2], from)} :
                    p \in {q \in from : lo <= q[1]}}

\* the lists mmap.py can hand over: ascending, non-overlapping, aligned, each
\* length > 0; a map file without lines gives the empty list
RegionLists ==
    UNION {{[k \in 1..n |-> Region(k, bs[k][1], bs[k][2] - bs[k][1], ts[k])] :
                bs \in Bounds(n, 0, IF n = 1 THEN SingleBounds ELSE ListBounds),
                ts \in {TypeList(t, same, n) : t \in MemoryTypes, same \in BOOLEAN}} :
           n \in 0..MaxRegions}

\* the end-to-end scenario of one Device granule at 0x09000000 (4K granule)
ScenarioLists ==
    IF args.tg = 4 * 1024 /\ UnitLevel = 3
    THEN {<<Region(1, 9 * 4096, 1, "device")>>}
    ELSE {}

\* the command lines whose tables are built: one per granule and start level
\* whose leaf levels fit the scaled integers (EL does not enter table.py)
BuilderArgs ==
    {Args("4K", 32, 2), Args("4K", 48, 2), Args("16K", 32, 2),
     Args("16K", 40, 2), Args("64K", 32, 2), Args("64K", 48, 2)}

(***************************************************************************)
(* pgtt/table.py: Table                                                    *)
(***************************************************************************)
\* Table.__init__, the new object appended to Table._allocated.  addr is the
\* table's offset from args.ttb in granules (args.ttb + len(_allocated) * args.tg);
\* num_contig = 0 stands for the attribute being absent.
NewTable(tabs, level, va_base) ==
    Append(tabs, [addr |-> Len(tabs), level |-> level, chunk |-> Chunk(level),
                  va_base |-> va_base, entries |-> <<>>, num_contig |-> 0])

TableEntry(id) == [kind |-> "table", id |-> id]
RegionEntry(r) == [kind |-> "region", r |-> r]

\* prepare_next that gives the child the level after the next
PrepareNextSkipLevel(tabs, t, idx, va) ==
    IF idx \notin DOMAIN tabs[t].entries
    THEN LET new == NewTable(tabs, tabs[t].level + 2,
                             IF va # <<>> THEN va[1] ELSE tabs[t].va_base + idx * tabs[t].chunk)
         IN  [new EXCEPT ![t].entries = (idx :> TableEntry(Len(new))) @@ @]
    ELSE tabs

\* prepare_next that allocates whether or not the index is taken
PrepareNextAlways(tabs, t, idx, va) ==
    LET new == NewTable(tabs, tabs[t].level + 1,
                        IF va # <<>> THEN va[1] ELSE tabs[t].va_base + idx * tabs[t].chunk)
    IN  [new EXCEPT ![t].entries = (idx :> TableEntry(Len(new))) @@ @]

\* Table.prepare_next(idx, va_base): va is <<>> for va_base=None, <<v>> otherwise
PrepareNext(tabs, t, idx, va) ==
    IF idx \notin DOMAIN tabs[t].entries
    THEN LET new == NewTable(tabs, tabs[t].level + 1,
                             IF va # <<>> THEN va[1] ELSE tabs[t].va_base + idx * tabs[t].chunk)
         IN  [new EXCEPT ![t].entries = (idx :> TableEntry(Len(new))) @@ @]
    ELSE tabs

\* the assertions of lines 68-69
MapAsserts(tab, r) ==
    /\ r.addr >= tab.va_base
    /\ r.addr + r.length <= tab.va_base + mmu.entries_per_table * tab.chunk

\* line 76
NumChunks(tab, r) == r.length \div tab.chunk

\* line 77
StartIdx(tab, r) == (r.addr \div tab.chunk) % mmu.entries_per_table

\* line 109, line 130
Underflow(tab, r) == r.addr % tab.chunk
Overflow(tab, r) == (r.addr + r.length) % tab.chunk

\* final_idx one less whether or not there is a leading partial chunk
FinalIdxLessOne(f) == f.start_idx + f.num_chunks - 1

\* line 133: start_idx + num_chunks - (not not underflow)
FinalIdx(f) == f.start_idx + f.num_chunks - (IF f.underflow # 0 THEN 1 ELSE 0)

\* line 134
OverflowVaBase(tab, r) == ((r.addr + r.length) \div tab.chunk) * tab.chunk

\* the frame of a call t.map(r) with the locals the call assigns; ref is the
\* position in mmap.regions of the object r when the call received that object
\* itself, 0 when it received a copy
Frame(t, r, ref) ==
    [t |-> t, r |-> r, ref |-> ref, pc |-> "enter",
     num_chunks |-> 0, start_idx |-> 0, underflow |-> 0, overflow |-> 0]

Top == stack[Len(stack)]
TopTable == allocated[Top.t]

\* the caller's frame replaced by f and the callee's frame g pushed
Call(f, g) == [stack EXCEPT ![Len(stack)] = f] \o <<g>>
Goto(f) == [stack EXCEPT ![Len(stack)] = f]

GeomUnchanged == UNCHANGED <<args, mmu, mmu_pc, memory_map, call, cpu, mem>>

Init ==
    /\ args \in BuilderArgs
    /\ mmu = MmuModule(args)
    /\ mmu_pc = "done"
    /\ memory_map \in RegionLists \cup ScenarioLists
    /\ regions = memory_map
    /\ allocated = NewTable(<<>>, mmu.start_level, 0)
    /\ stack = <<>>
    /\ next_region = 1
    /\ status = "mapping"
    /\ rewritten = FALSE
    /\ asm = <<>>
    /\ call = NoCall
    /\ cpu = <<>>
    /\ mem = <<>>

\* line 203: root.map(r) for the next r of mmap.regions
MapRegion ==
    /\ status = "mapping"
    /\ stack = <<>>
    /\ next_region <= Len(regions)
    /\ stack' = <<Frame(1, regions[next_region], next_region)>>
    /\ next_region' = next_region + 1
    /\ UNCHANGED <<regions, allocated, status, rewritten, asm>>
    /\ GeomUnchanged

\* line 203 exhausted: table.py has been imported
MapDone ==
    /\ status = "mapping"
    /\ stack = <<>>
    /\ next_region > Len(regions)
    /\ status' = "mapped"
    /\ UNCHANGED <<regions, allocated, stack, next_region, rewritten, asm>>
    /\ GeomUnchanged

\* self.prepare_next(idx, va); self.entries[idx].map(piece), the caller waiting
\* in that call with the frame f.
\* A Region at idx has no map attribute.
Dispatch(f, idx, va, piece, ref) ==
    LET tabs == PrepareNext(allocated, Top.t, idx, va)
        e == tabs[Top.t].entries[idx]
    IN  /\ allocated' = tabs
        /\ rewritten' = (rewritten \/ (Len(tabs) > Len(allocated) /\ idx \in DOMAIN TopTable.entries))
        /\ IF e.kind = "table"
           THEN /\ stack' = Call(f, Frame(e.id, piece, ref))
                /\ status' = status
           ELSE /\ stack' = Goto(f)
                /\ status' = "AttributeError"

\* lines 68-93: the assertions, num_chunks and start_idx, the floating region
MapEnter ==
    /\ status = "mapping"
    /\ stack # <<>>
    /\ Top.pc = "enter"
    /\ IF ~MapAsserts(TopTable, Top.r)
       THEN /\ status' = "AssertionError"
            /\ UNCHANGED <<allocated, stack, rewritten>>
       ELSE LET f == [Top EXCEPT !.num_chunks = NumChunks(TopTable, Top.r),
                                 !.start_idx = StartIdx(TopTable, Top.r)]
            IN  IF f.num_chunks = 0
                THEN Dispatch([f EXCEPT !.pc = "call92"], f.start_idx, <<>>, Top.r, Top.ref)
                ELSE /\ stack' = Goto([f EXCEPT !.pc = "underflow"])
                     /\ UNCHANGED <<allocated, status, rewritten>>
    /\ UNCHANGED <<regions, next_region, asm>>
    /\ GeomUnchanged

\* lines 109-113.  The caller waits in the call of line 113 with start_idx as
\* line 77 set it: line 114 runs once that call has returned.
MapUnderflow ==
    /\ status = "mapping"
    /\ stack # <<>>
    /\ Top.pc = "underflow"
    /\ LET f == [Top EXCEPT !.underflow = Underflow(TopTable, Top.r)]
       IN  IF f.underflow # 0
           THEN Dispatch([f EXCEPT !.pc = "call113"], f.start_idx, <<>>,
                         RegionCopy(Top.r, Top.r.addr, TopTable.chunk - f.underflow), 0)
           ELSE /\ stack' = Goto([f EXCEPT !.pc = "overflow"])
                /\ UNCHANGED <<allocated, status, rewritten>>
    /\ UNCHANGED <<regions, next_region, asm>>
    /\ GeomUnchanged

\* lines 130-136.  The caller waits in the call of line 136 with num_chunks
\* as line 76 set it: line 137 runs once that call has returned.
MapOverflow ==
    /\ status = "mapping"
    /\ stack # <<>>
    /\ Top.pc = "overflow"
    /\ LET f == [Top EXCEPT !.overflow = Overflow(TopTable, Top.r)]
           va_base == OverflowVaBase(TopTable, Top.r)
       IN  IF f.overflow # 0
           THEN Dispatch([f EXCEPT !.pc = "call136"], FinalIdx(f), <<va_base>>,
                         RegionCopy(Top.r, va_base, f.overflow), 0)
           ELSE /\ stack' = Goto([f EXCEPT !.pc = "chunks"])
                /\ UNCHANGED <<allocated, status, rewritten>>
    /\ UNCHANGED <<regions, next_region, asm>>
    /\ GeomUnchanged

\* lines 142-143.  Line 142 assigns region.length = self.chunk on the object
\* the call received, which is also the r of every caller that passed its own
\* region on (line 92) and the element of mmap.regions when the root received
\* it.  Line 143 then reads args.tg_str, a name args.py does not define: the
\* AttributeError is caught nowhere and ends the import of table.py.
MapChunks ==
    /\ status = "mapping"
    /\ stack # <<>>
    /\ Top.pc = "chunks"
    /\ ~ArgsHas("tg_str")
    /\ stack' = [k \in DOMAIN stack |->
                    IF \A j \in k .. (Len(stack) - 1) : stack[j].pc = "call92"
                    THEN [stack[k] EXCEPT !.r.length = TopTable.chunk,
                                          !.pc = IF k = Len(stack) THEN "line143" ELSE @]
                    ELSE stack[k]]
    /\ regions' = IF Top.ref # 0 THEN [regions EXCEPT ![Top.ref].length = TopTable.chunk] ELSE regions
    /\ status' = "AttributeError"
    /\ UNCHANGED <<allocated, next_region, rewritten, asm>>
    /\ GeomUnchanged

(***************************************************************************)
(* pgtt/codegen.py                                                         *)
(***************************************************************************)
\* min(keys): the next index of the sorted keys
SetMin(S) == CHOOSE x \in S : \A y \in S : x <= y

\* _mk_table(n, t): the header of table number n
MkTable(n, t) == [kind |-> "table", n |-> n, addr |-> t.addr, chunk |-> t.chunk]

\* _mk_blocks(n, t, idx, r): one loop writing r.num_contig entries from idx on,
\* the first with output address r.addr, each next one chunk further
MkBlocks(n, t, idx, r) ==
    [kind |-> "blocks", n |-> n, idx |-> idx, num_contig |-> r.num_contig, addr |-> r.addr,
     template_reg |->
        CASE r.memory_type = "device" -> (IF t.level < 3 THEN "x2" ELSE "x3")
          [] r.memory_type = "rw_data" -> (IF t.level < 3 THEN "x4" ELSE "x5")
          [] OTHER -> (IF t.level < 3 THEN "x20" ELSE "x21")]

\* _mk_next_level_table(n, idx, next_t): one pointer write
MkNextLevelTable(n, idx, next_t) ==
    [kind |-> "next_level_table", n |-> n, idx |-> idx, addr |-> next_t.addr]

\* the while loop of _mk_asm over the sorted keys still to be written; ok is
\* FALSE when keys.remove(k) meets a k that is not in the list (ValueError)
RECURSIVE MkEntries(_, _, _, _)
MkEntries(tabs, n, t, keys) ==
    IF keys = {} THEN [out |-> <<>>, ok |-> TRUE]
    ELSE LET idx == SetMin(keys)
             entry == t.entries[idx]
         IN  IF entry.kind = "region"
             THEN LET written == idx .. (idx + entry.r.num_contig - 1)
                      rest == MkEntries(tabs, n, t, keys \ written)
                  IN  IF written \subseteq keys
                      THEN [out |-> <<MkBlocks(n, t, idx, entry.r)>> \o rest.out, ok |-> rest.ok]
                      ELSE [out |-> <<MkBlocks(n, t, idx, entry.r)>>, ok |-> FALSE]
             ELSE LET rest == MkEntries(tabs, n, t, keys \ {idx})
                  IN  [out |-> <<MkNextLevelTable(n, idx, tabs[entry.id])>> \o rest.out, ok |-> rest.ok]

\* for n,t in enumerate(table.Table._allocated), from table number n on
RECURSIVE MkAsm(_, _)
MkAsm(tabs, n) ==
    IF n >= Len(tabs) THEN [out |-> <<>>, ok |-> TRUE]
    ELSE LET t == tabs[n + 1]
             these == MkEntries(tabs, n, t, DOMAIN t.entries)
             rest == MkAsm(tabs, n + 1)
         IN  IF these.ok
             THEN [out |-> <<MkTable(n, t)>> \o these.out \o rest.out, ok |-> rest.ok]
             ELSE [out |-> <<MkTable(n, t)>> \o these.out, ok |-> FALSE]

\* codegen.py is imported after table.py.  The template of lines 129-239 is one
\* f-string, evaluated from its first field on: line 151 reads args.tg_str
\* before line 215 calls _mk_asm(), and the AttributeError ends the import with
\* nothing emitted
Codegen ==
    /\ status = "mapped"
    /\ ~ArgsHas("tg_str")
    /\ status' = "AttributeError"
    /\ UNCHANGED <<regions, allocated, stack, next_region, rewritten, asm>>
    /\ GeomUnchanged

Next ==
    \/ MapRegion
    \/ MapDone
    \/ MapEnter
    \/ MapUnderflow
    \/ MapOverflow
    \/ MapChunks
    \/ Codegen

Spec == Init /\ [][Next]_vars

(***************************************************************************)
(* pgtt/codegen.py: the routine mmu_on of the template (lines 161-238),    *)
(* run by the cores of one machine.  At this commit the import ends in an  *)
(* exception before the template is rendered (Codegen, MapChunks), so the  *)
(* routine is followed in the words of the template, with the fields of    *)
(* lines 198 and 215 evaluated on the tables the import left behind in     *)
(* Table._allocated.  Each core has its registers (x2, x3, x10, x11; w2    *)
(* and w3 are the low halves of x2 and x3), its program position, its      *)
(* event register and its exclusive monitor; mmu_lock, mmu_init and the    *)
(* translation tables are shared memory.  LDAXR, STXR and STLR order the   *)
(* accesses of a core around the lock, so memory is taken as one copy that *)
(* every access reads and writes at once.                                  *)
(* One step is one access to shared memory (a load, a store, a wait for an *)
(* event) together with the instructions around it that touch only the     *)
(* core's own registers and the branch that follows: the other cores can   *)
(* run between any two accesses.                                           *)
(***************************************************************************)
\* the memory map whose tables the routine is run on (-tg 4K -tsz 32 -el 2):
\* 4MB of code at 0x200000, which leaves the root with a pointer to one
\* level-2 table
MmuOnMaps == {<<Region(1, 512, 1024, "code")>>}

\* root = Table() for this memory map
MmuOnInit ==
    /\ args = Args("4K", 32, 2)
    /\ mmu = MmuModule(args)
    /\ mmu_pc = "done"
    /\ memory_map \in MmuOnMaps
    /\ regions = memory_map
    /\ allocated = NewTable(<<>>, mmu.start_level, 0)
    /\ stack = <<>>
    /\ next_region = 1
    /\ status = "mapping"
    /\ rewritten = FALSE
    /\ asm = <<>>
    /\ call = NoCall
    /\ cpu = <<>>
    /\ mem = <<>>

\* #define LOCKED 1, #define INITIALISED 1
LOCKED == 1
INITIALISED == 1

Cores == DOMAIN cpu

\* line 215: what the field {_mk_asm()} stands for, the blocks of _mk_asm over
\* Table._allocated
MmuOnProgram == MkAsm(allocated, 0).out

\* the indices a block stores to
Covered(w) == IF w.kind = "blocks" THEN w.idx .. (w.idx + w.num_contig - 1) ELSE {w.idx}

\* a core entering mmu_on: nothing of the routine has run on it.  tcr_reads_back
\* is the hardware's part of lines 231-232: whether this CPU returns the value
\* written to TCR when it is read back
NewCore(reads_back) ==
    [pc |-> "mmu_on", event |-> FALSE, monitor |-> FALSE, x2 |-> 0, x3 |-> 0,
     x10 |-> 0, x11 |-> 0,
     k |-> 1, msr |-> <<>>, tcr_reads_back |-> reads_back, spin |-> FALSE,
     acquired |-> 0, released |-> 0]

\* lines 164, 167: both words are 0 in .data; the tables hold what memory
\* held before: of each table, zeroed is the number of entries, from entry 0
\* on, that have been cleared, written the indices stored to since.  holder,
\* first, writers and unlocked record what happened: the core inside the
\* lock, the first core that acquired it, the cores that wrote to the tables,
\* a table write made by a core that did not hold the lock
NewMemory(tabs) ==
    [mmu_lock |-> 0, mmu_init |-> 0,
     tables |-> [n \in 0 .. Len(tabs) - 1 |-> [zeroed |-> 0, written |-> {}]],
     holder |-> 0, first |-> 0, writers |-> {}, unlocked |-> FALSE]

MmuOnUnchanged ==
    UNCHANGED <<args, mmu, mmu_pc, memory_map, regions, allocated, stack, next_region, status,
                rewritten, asm, call>>

\* lines 161-175: the data section and the label mmu_on.  The import is over;
\* the cores reach mmu_on.  They run the same code and differ only in what
\* their TCR reads back: the first good cores read back the value written,
\* the others do not
MmuOnStart ==
    /\ status \notin {"mapping", "mapped"}
    /\ cpu = <<>>
    /\ \E n \in 1 .. MaxCores : \E good \in 0 .. n :
          cpu' = [c \in 1 .. n |-> NewCore(c <= good)]
    /\ mem' = NewMemory(allocated)
    /\ MmuOnUnchanged

\* a store that clears the monitors and sets no event register
ClearMonitorsNoEvent(cs, c) == [d \in DOMAIN cs |-> [cs[d] EXCEPT !.monitor = FALSE]]

\* a store to mmu_lock by core c: every other core whose exclusive monitor
\* holds the address loses it, which sets that core's event register
ClearMonitors(cs, c) ==
    [d \in DOMAIN cs |->
        IF d = c \/ ~cs[d].monitor THEN [cs[d] EXCEPT !.monitor = FALSE]
        ELSE [cs[d] EXCEPT !.monitor = FALSE, !.event = TRUE]]

\* STXR that stores whatever the monitor holds
StxrAlwaysSucceeds(c) == TRUE

\* line 185: STXR stores only while the core's monitor still holds the address
StxrSucceeds(c) == cpu[c].monitor

\* a store of core c to the entries idxs of table n (zeros or descriptors),
\* and its record
TableWrite(m, c, n, zero, idxs) ==
    [m EXCEPT !.tables[n] = IF zero THEN [zeroed |-> @.zeroed + Cardinality(idxs),
                                          written |-> @.written \ idxs]
                            ELSE [@ EXCEPT !.written = @ \cup idxs],
              !.writers = @ \cup {c},
              !.unlocked = @ \/ m.holder # c \/ m.mmu_lock # LOCKED]

\* lines 177-180: x0 = &mmu_lock, w1 = LOCKED, SEVL sets the core's event register
MmuOnEnter(c) ==
    /\ cpu[c].pc = "mmu_on"
    /\ cpu' = [cpu EXCEPT ![c].event = TRUE, ![c].pc = "wfe"]
    /\ UNCHANGED mem
    /\ MmuOnUnchanged

\* line 182: WFE returns when the event register is set, and clears it
Wfe(c) ==
    /\ cpu[c].pc = "wfe"
    /\ cpu[c].event
    /\ cpu' = [cpu EXCEPT ![c].event = FALSE, ![c].pc = "ldaxr"]
    /\ UNCHANGED mem
    /\ MmuOnUnchanged

\* an event from outside the routine (an interrupt, the event stream) wakes
\* a core waiting in WFE
EventArrives(c) ==
    /\ cpu[c].pc = "wfe"
    /\ ~cpu[c].event
    /\ cpu' = [cpu EXCEPT ![c].event = TRUE]
    /\ UNCHANGED mem
    /\ MmuOnUnchanged

\* lines 183-184: LDAXR w2, [x0] arms the monitor; CBNZ w2, 1b
LoadLock(c) ==
    /\ cpu[c].pc = "ldaxr"
    /\ cpu' = [cpu EXCEPT ![c].x2 = mem.mmu_lock, ![c].monitor = TRUE,
                          ![c].pc = IF mem.mmu_lock # 0 THEN "wfe" ELSE "stxr"]
    /\ UNCHANGED mem
    /\ MmuOnUnchanged

\* lines 185-186: STXR w3, w1, [x0]; CBNZ w3, 1b
StoreLock(c) ==
    /\ cpu[c].pc = "stxr"
    /\ IF StxrSucceeds(c)
       THEN /\ mem' = [mem EXCEPT !.mmu_lock = LOCKED, !.holder = c,
                                  !.first = IF @ = 0 THEN c ELSE @]
            /\ cpu' = [ClearMonitors(cpu, c) EXCEPT ![c].x3 = 0, ![c].acquired = 1,
                                                    ![c].pc = "check_already_initialised"]
       ELSE /\ cpu' = [cpu EXCEPT ![c].x3 = 1, ![c].pc = "wfe"]
            /\ UNCHANGED mem
    /\ MmuOnUnchanged

\* lines 190-193: LDR w2, [x1]; CBNZ w2, end
CheckAlreadyInitialised(c) ==
    /\ cpu[c].pc = "check_already_initialised"
    /\ cpu' = [cpu EXCEPT ![c].x2 = mem.mmu_init,
                          ![c].pc = IF mem.mmu_init # 0 THEN "end" ELSE "zero_out_tables"]
    /\ UNCHANGED mem
    /\ MmuOnUnchanged

\* lines 197-200: x2 = args.ttb (kept as the byte offset from args.ttb),
\* x3 = (args.tg * len(_allocated)) >> 5, q0 = 0
ZeroOutTables(c) ==
    /\ cpu[c].pc = "zero_out_tables"
    /\ cpu' = [cpu EXCEPT ![c].x2 = 0, ![c].x3 = (args.tg * Len(allocated)) \div 32,
                          ![c].pc = "zero_loop"]
    /\ UNCHANGED mem
    /\ MmuOnUnchanged

\* lines 202-204, one pass: STP q0, q0, [x2], #32 clears the 32 bytes at x2
\* (four entries of the table x2 lies in) and advances x2; SUBS x3, x3, #1;
\* B.NE 1b
ZeroLoop(c) ==
    /\ cpu[c].pc = "zero_loop"
    /\ LET n == cpu[c].x2 \div args.tg
           first == (cpu[c].x2 % args.tg) \div 8
       IN  mem' = TableWrite(mem, c, n, TRUE, first .. (first + 3))
    /\ cpu' = [cpu EXCEPT ![c].x2 = @ + 32, ![c].x3 = @ - 1,
                          ![c].pc = IF cpu[c].x3 - 1 # 0 THEN "zero_loop"
                                    ELSE "load_descriptor_templates"]
    /\ MmuOnUnchanged

\* lines 208-213: the six templates go to x2..x5, x20, x21.  mmu.py defines
\* neither block_template nor page_template, so the values have no number:
\* x2 and x3 hold the fields as the template words them
LoadDescriptorTemplates(c) ==
    /\ cpu[c].pc = "load_descriptor_templates"
    /\ cpu' = [cpu EXCEPT ![c].x2 = "mmu.block_template(device)",
                          ![c].x3 = "mmu.page_template(device)",
                          ![c].k = 1, ![c].pc = "program"]
    /\ UNCHANGED mem
    /\ MmuOnUnchanged

\* line 215, block k of {_mk_asm()}, up to its next store.  A table header
\* loads x8 and x9 (the table stays named by the block, w.n).  A pointer
\* write loads x10 and x11 and stores once.  A blocks loop loads x10 and x11
\* and stores entry x10 in each pass (program_loop: at label 1 of the block),
\* x10 going up and x11 down, until x11 is 0.  The addresses in x11 and x12
\* are kept without the descriptor bits, x11 relative to args.ttb in granules.
ProgramTable(c) ==
    /\ cpu[c].pc \in {"program", "program_loop"}
    /\ LET w == MmuOnProgram[cpu[c].k]
           next == IF cpu[c].k + 1 > Len(MmuOnProgram) THEN "init_done" ELSE "program"
           x10 == IF cpu[c].pc = "program" THEN w.idx ELSE cpu[c].x10
           x11 == IF cpu[c].pc = "program" THEN w.num_contig ELSE cpu[c].x11
       IN  CASE w.kind = "table" ->
                  /\ mem' = mem
                  /\ cpu' = [cpu EXCEPT ![c].k = @ + 1, ![c].pc = next]
             [] w.kind = "next_level_table" ->
                  /\ mem' = TableWrite(mem, c, w.n, FALSE, {w.idx})
                  /\ cpu' = [cpu EXCEPT ![c].x10 = w.idx, ![c].x11 = w.addr,
                                        ![c].k = @ + 1, ![c].pc = next]
             [] w.kind = "blocks" ->
                  /\ mem' = TableWrite(mem, c, w.n, FALSE, {x10})
                  /\ cpu' = IF x11 - 1 # 0
                            THEN [cpu EXCEPT ![c].x10 = x10 + 1, ![c].x11 = x11 - 1,
                                             ![c].pc = "program_loop"]
                            ELSE [cpu EXCEPT ![c].x10 = x10 + 1, ![c].x11 = x11 - 1,
                                             ![c].k = @ + 1, ![c].pc = next]
    /\ MmuOnUnchanged

\* lines 219-220: MOV w2, #INITIALISED; STR w2, [x1]
InitDone(c) ==
    /\ cpu[c].pc = "init_done"
    /\ mem' = [mem EXCEPT !.mmu_init = INITIALISED]
    /\ cpu' = [cpu EXCEPT ![c].x2 = INITIALISED, ![c].pc = "end"]
    /\ MmuOnUnchanged

\* an MSR of the end section: the register, reg_el{args.el}, joins the ones
\* this core programmed
Msr(c, from, reg, to) ==
    /\ cpu[c].pc = from
    /\ cpu' = [cpu EXCEPT ![c].msr = Append(@, [reg |-> reg, el |-> args.el]), ![c].pc = to]
    /\ UNCHANGED mem
    /\ MmuOnUnchanged

\* lines 224-225
ProgramTtbr(c) == Msr(c, "end", "ttbr0", "mair")

\* lines 226-227
ProgramMair(c) == Msr(c, "mair", "mair", "tcr")

\* lines 228-230
ProgramTcr(c) == Msr(c, "tcr", "tcr", "verify")

\* lines 231-233: MRS x2, tcr; CMP x2, x1; B.NE . branches to itself when the
\* value read back is not the value written (x1, mmu.tcr)
VerifyTcr(c) ==
    /\ cpu[c].pc = "verify"
    /\ cpu' = [cpu EXCEPT ![c].x2 = IF cpu[c].tcr_reads_back THEN "mmu.tcr" ELSE "not mmu.tcr",
                          ![c].pc = IF cpu[c].tcr_reads_back THEN "sctlr" ELSE "spin"]
    /\ UNCHANGED mem
    /\ MmuOnUnchanged

\* line 233: B.NE . taken again; the flags do not change, spin counts the
\* branches modulo 2
VerifySpin(c) ==
    /\ cpu[c].pc = "spin"
    /\ cpu' = [cpu EXCEPT ![c].spin = ~@]
    /\ UNCHANGED mem
    /\ MmuOnUnchanged

\* lines 234-236
ProgramSctlr(c) == Msr(c, "sctlr", "sctlr", "stlr")

\* line 237: STLR wzr, [x0]
ReleaseLock(c) ==
    /\ cpu[c].pc = "stlr"
    /\ mem' = [mem EXCEPT !.mmu_lock = 0, !.holder = IF @ = c THEN 0 ELSE @]
    /\ cpu' = [ClearMonitors(cpu, c) EXCEPT ![c].released = 1, ![c].pc = "ret"]
    /\ MmuOnUnchanged

\* line 238
Ret(c) ==
    /\ cpu[c].pc = "ret"
    /\ cpu' = [cpu EXCEPT ![c].pc = "returned"]
    /\ UNCHANGED mem
    /\ MmuOnUnchanged

\* the next instruction of core c
CoreStep(c) ==
    /\ c \in Cores
    /\ \/ MmuOnEnter(c)
       \/ Wfe(c)
       \/ LoadLock(c)
       \/ StoreLock(c)
       \/ CheckAlreadyInitialised(c)
       \/ ZeroOutTables(c)
       \/ ZeroLoop(c)
       \/ LoadDescriptorTemplates(c)
       \/ ProgramTable(c)
       \/ InitDone(c)
       \/ ProgramTtbr(c)
       \/ ProgramMair(c)
       \/ ProgramTcr(c)
       \/ VerifyTcr(c)
       \/ VerifySpin(c)
       \/ ProgramSctlr(c)
       \/ ReleaseLock(c)
       \/ Ret(c)

\* the import of table.py on a memory map that is not empty (it ends inside
\* the first map call: line 203 is not exhausted, codegen.py is not reached),
\* then the cores
MmuOnNext ==
    \/ MapRegion
    \/ MapEnter
    \/ MapUnderflow
    \/ MapOverflow
    \/ MapChunks
    \/ MmuOnStart
    \/ \E c \in Cores : CoreStep(c)
    \/ \E c \in Cores : EventArrives(c)

SpecMmuOn == MmuOnInit /\ [][MmuOnNext]_vars

\* the interpreter runs the import to its end, the cores are started, and
\* every core keeps executing instructions: a core that can take its next
\* instruction takes it
FairMmuOn ==
    /\ SpecMmuOn
    /\ WF_vars(MapRegion \/ MapEnter \/ MapUnderflow \/ MapOverflow \/ MapChunks)
    /\ WF_vars(MmuOnStart)
    /\ \A c \in 1 .. MaxCores : WF_vars(CoreStep(c))

(***************************************************************************)
(* What the finished tables map.                                           *)
(***************************************************************************)
\* the leaf entries reachable from table t, whose entry 0 is reached at
\* virtual address base: where each is reached (va), what it spans, what it holds
RECURSIVE ReachLeaves(_, _)
ReachLeaves(t, base) ==
    LET tab == allocated[t]
    IN  UNION {IF tab.entries[i].kind = "region"
               THEN {[t |-> t, idx |-> i, va |-> base + i * tab.chunk, span |-> tab.chunk,
                      r |-> tab.entries[i].r]}
               ELSE ReachLeaves(tab.entries[i].id, base + i * tab.chunk) :
               i \in DOMAIN tab.entries}

RootLeaves == ReachLeaves(1, 0)

\* the address space under the leaves reachable from table t: its own leaves
\* span a chunk each, its child tables (kids: those not yet counted) the rest
RECURSIVE LeafSpan(_, _)
LeafSpan(t, kids) ==
    LET tab == allocated[t]
        own == {i \in DOMAIN tab.entries : tab.entries[i].kind = "region"}
    IN  IF kids = {} THEN Cardinality(own) * tab.chunk
        ELSE LET i == CHOOSE k \in kids : TRUE
                 c == tab.entries[i].id
             IN  LeafSpan(c, {k \in DOMAIN allocated[c].entries : allocated[c].entries[k].kind = "table"})
                 + LeafSpan(t, kids \ {i})

RECURSIVE SumLength(_, _)
SumLength(rs, k) == IF k > Len(rs) THEN 0 ELSE rs[k].length + SumLength(rs, k + 1)

\* the table of the given level on the walk from table t towards addr, 0 if the walk ends before
RECURSIVE TableOnWalk(_, _, _)
TableOnWalk(t, addr, level) ==
    LET tab == allocated[t]
        idx == (addr \div tab.chunk) % mmu.entries_per_table
    IN  IF tab.level = level THEN t
        ELSE IF idx \in DOMAIN tab.entries /\ tab.entries[idx].kind = "table"
             THEN TableOnWalk(tab.entries[idx].id, addr, level)
             ELSE 0

\* the levels the model's tables can have
ModelLevelSet == mmu.start_level .. UnitLevel

(***************************************************************************)
(* How a run ends.  An exception raised inside map leaves the frames of    *)
(* the active calls behind; the list comprehension of line 203 ends with   *)
(* no call active.                                                         *)
(***************************************************************************)
\* the import of table.py is over: line 203 ran to its end or an exception ended it
Ended == status # "mapping"

\* line 203 ran to its end: every region of the list has been mapped
Mapped == status # "mapping" /\ stack = <<>>

\* the import of codegen.py is over
CodegenEnded == status \notin {"mapping", "mapped"}

(***************************************************************************)
(* C1: the root maps the whole list, and then the leaf entries reachable   *)
(* from the root tile exactly the regions: every leaf is reached at an     *)
(* address range inside one region, carries that region's memory type and  *)
(* an output address equal to the address it is reached at, and the leaves *)
(* (which the walk by index keeps disjoint) cover as many bytes as the     *)
(* regions hold, so every address of every region is under one leaf.       *)
(***************************************************************************)
C1_LeavesTileRegions ==
    Ended =>
        /\ Mapped
        /\ \A l \in RootLeaves :
              \E k \in DOMAIN memory_map :
                  /\ memory_map[k].addr <= l.va
                  /\ l.va + l.span <= memory_map[k].addr + memory_map[k].length
                  /\ l.r.memory_type = memory_map[k].memory_type
                  /\ l.r.addr = l.va
        /\ LeafSpan(1, {k \in DOMAIN allocated[1].entries : allocated[1].entries[k].kind = "table"})
              = SumLength(memory_map, 1)

(***************************************************************************)
(* C2: no map call, at any depth, fails the assertions of lines 68-69.     *)
(***************************************************************************)
C2_AssertionsNeverFail == status # "AssertionError"

(***************************************************************************)
(* C4: for a memory map of one region that is one aligned chunk of a level *)
(* L (any level from the start level on), the map call returns and the     *)
(* level-L table on the walk to the region holds exactly one entry, a leaf *)
(* at the region's index; no table is allocated beyond the walk to that    *)
(* table.                                                                  *)
(***************************************************************************)
OneChunkMapped(L) ==
    LET r == memory_map[1]
        t == TableOnWalk(1, r.addr, L)
    IN  /\ t # 0
        /\ DOMAIN allocated[t].entries = {(r.addr \div Chunk(L)) % mmu.entries_per_table}
        /\ \A i \in DOMAIN allocated[t].entries :
              /\ allocated[t].entries[i].kind = "region"
              /\ allocated[t].entries[i].r.addr = r.addr
              /\ allocated[t].entries[i].r.length = Chunk(L)
        /\ Len(allocated) = L - mmu.start_level + 1

IsOneChunk(L) ==
    /\ Len(memory_map) = 1
    /\ memory_map[1].length = Chunk(L)
    /\ memory_map[1].addr % Chunk(L) = 0

C4_OneChunkOneLeafAnyLevel ==
    Ended => \A L \in ModelLevelSet : IsOneChunk(L) => (Mapped /\ OneChunkMapped(L))

(***************************************************************************)
(* Table.prepare_next called on its own.  In Spec every map call ends in   *)
(* an exception before a second dispatch is made from any table, so no     *)
(* call of prepare_next there meets an index that is taken.  Here the      *)
(* method is called directly, the way lines 91, 112 and 135 call it, on    *)
(* the tables it has allocated itself, starting from the root of line 202. *)
(***************************************************************************)
\* the indices passed: the first two and the last of a table
PrepareNextIdxs == {0, 1, mmu.entries_per_table - 1}

\* the va_base passed to a call on index idx of table tab: None (lines 91 and
\* 112), the base of that index, or the base of the next chunk (line 135)
PrepareNextVas(tab, idx) ==
    {<<>>, <<tab.va_base + idx * tab.chunk>>, <<tab.va_base + (idx + 1) * tab.chunk>>}

PrepareNextInit ==
    /\ args \in BuilderArgs
    /\ mmu = MmuModule(args)
    /\ mmu_pc = "done"
    /\ memory_map = <<>>
    /\ regions = <<>>
    /\ allocated = NewTable(<<>>, mmu.start_level, 0)
    /\ stack = <<>>
    /\ next_region = 1
    /\ status = "calling"
    /\ rewritten = FALSE
    /\ asm = <<>>
    /\ call = NoCall
    /\ cpu = <<>>
    /\ mem = <<>>

\* t.prepare_next(idx, va_base) followed by the lookup self.entries[idx] of the
\* dispatch (lines 92, 113, 136), for a table t above the last modelled level
PrepareNextCall ==
    /\ status = "calling"
    /\ call.n < MaxCalls
    /\ \E t \in DOMAIN allocated : \E idx \in PrepareNextIdxs :
          \E va \in PrepareNextVas(allocated[t], idx) :
              LET tabs == PrepareNext(allocated, t, idx, va)
                  hit == idx \in DOMAIN allocated[t].entries
              IN  /\ allocated[t].level < UnitLevel
                  /\ allocated' = tabs
                  /\ rewritten' = (rewritten \/ (Len(tabs) > Len(allocated) /\ hit))
                  /\ call' = [n |-> call.n + 1, t |-> t, idx |-> idx, va |-> va, hit |-> hit,
                              entered |-> tabs[t].entries[idx].id]
    /\ UNCHANGED <<args, mmu, mmu_pc, memory_map, regions, stack, next_region, status, asm, cpu, mem>>

PrepareNextNext == PrepareNextCall

SpecPrepareNext == PrepareNextInit /\ [][PrepareNextNext]_vars

(***************************************************************************)
(* C6: prepare_next on an index that already holds a child table allocates *)
(* nothing and changes no table, the dispatch that follows enters that     *)
(* same child, and every table but the root is the child of exactly one    *)
(* (parent, index) pair.                                                   *)
(***************************************************************************)
\* the indices of table t that hold child tables
TableIdxs(t) == {i \in DOMAIN allocated[t].entries : allocated[t].entries[i].kind = "table"}

OneParentEach ==
    LET idxs == [t \in DOMAIN allocated |-> TableIdxs(t)]
        kids == [t \in DOMAIN allocated |-> {allocated[t].entries[i].id : i \in idxs[t]}]
    IN  /\ \A t \in DOMAIN allocated : Cardinality(kids[t]) = Cardinality(idxs[t])
        /\ \A t, u \in DOMAIN allocated : t # u => kids[t] \cap kids[u] = {}
        /\ UNION {kids[t] : t \in DOMAIN allocated} = 2..Len(allocated)

C6_PrepareNextIdempotent ==
    [][/\ (call'.n = call.n + 1 /\ call'.hit)
          => /\ allocated' = allocated
             /\ call'.entered = allocated[call'.t].entries[call'.idx].id
       /\ OneParentEach']_vars

\* the second call on an index entered the child the first call allocated there
C6_Witness ==
    /\ call.hit
    /\ call.va = <<>>
    /\ Len(allocated) >= 3
    /\ call.entered \in 2 .. Len(allocated)
    /\ allocated[call.entered].level = allocated[call.t].level + 1

(***************************************************************************)
(* C7: every entry is stored at the index its base address gives: a leaf r *)
(* at (r.addr - va_base) div chunk, a child table c at (c.va_base -        *)
(* va_base) div chunk, with c.va_base = va_base + i * chunk, also the      *)
(* child allocated for a trailing partial chunk.                           *)
(***************************************************************************)
C7_IndexMatchesAddress ==
    \A t \in DOMAIN allocated :
        \A i \in DOMAIN allocated[t].entries :
            LET tab == allocated[t]
                e == tab.entries[i]
            IN  IF e.kind = "region"
                THEN (e.r.addr - tab.va_base) \div tab.chunk = i
                ELSE /\ (allocated[e.id].va_base - tab.va_base) \div tab.chunk = i
                     /\ allocated[e.id].va_base = tab.va_base + i * tab.chunk

\* a call waits in the dispatch of its trailing partial chunk (line 136): the
\* child was allocated at final_idx, an index other than 0, with the va_base
\* of line 134, and was handed the piece that starts there
C7_Witness ==
    \E k \in DOMAIN stack :
        LET f == stack[k]
            tab == allocated[f.t]
        IN  /\ f.pc = "call136"
            /\ f.overflow # 0
            /\ k < Len(stack)
            /\ \E i \in DOMAIN tab.entries :
                  /\ i > 0
                  /\ tab.entries[i].kind = "table"
                  /\ tab.entries[i].id = stack[k + 1].t
                  /\ allocated[stack[k + 1].t].va_base = stack[k + 1].r.addr
                  /\ stack[k + 1].r.addr = ((f.r.addr + f.r.length) \div tab.chunk) * tab.chunk

(***************************************************************************)
(* C9: a memory map of one region of one granule is mapped into one table  *)
(* per level from start_level to 3, each but the last holding only the     *)
(* pointer to the next at the index of the region's address, the last      *)
(* holding only the leaf with the region's memory type; for 4K, tsz 32,    *)
(* EL2 and the Device granule at 0x09000000 these are three tables of      *)
(* levels 1, 2, 3.                                                         *)
(***************************************************************************)
C9_OneTablePerLevel ==
    (Ended /\ UnitLevel = 3 /\ Len(memory_map) = 1 /\ memory_map[1].length = 1) =>
        LET r == memory_map[1]
            n == 3 - mmu.start_level + 1
        IN  /\ Mapped
            /\ Len(allocated) = n
            /\ \A k \in 1..n :
                  LET tab == allocated[k]
                      idx == (r.addr \div Chunk(tab.level)) % mmu.entries_per_table
                  IN  /\ tab.level = mmu.start_level + k - 1
                      /\ DOMAIN tab.entries = {idx}
                      /\ tab.entries[idx] =
                            IF k < n THEN TableEntry(k + 1)
                            ELSE RegionEntry(Region(r.lineno, r.addr, 1, r.memory_type))
            /\ (args = Args("4K", 32, 2) /\ memory_map \in ScenarioLists) =>
                  /\ mmu.start_level = 1
                  /\ Len(allocated) = 3
                  /\ allocated[3].level = 3

(***************************************************************************)
(* C10: 4K granule, tsz 32, a memory map of one Normal-Code region of 2MB  *)
(* at a multiple of 2MB: the region is mapped as a single block leaf of    *)
(* the level-1 root and no child table is allocated.                       *)
(***************************************************************************)
TwoMB == Pow2(21 - UnitBits)

IsCode2MB ==
    /\ args = Args("4K", 32, 2)
    /\ Len(memory_map) = 1
    /\ memory_map[1].memory_type = "code"
    /\ memory_map[1].length = TwoMB
    /\ memory_map[1].addr % TwoMB = 0

C10_Level1Block ==
    (Ended /\ IsCode2MB) =>
        /\ Mapped
        /\ Len(allocated) = 1
        /\ allocated[1].level = 1
        /\ \E i \in DOMAIN allocated[1].entries :
              /\ DOMAIN allocated[1].entries = {i}
              /\ allocated[1].entries[i].kind = "region"

(***************************************************************************)
(* C13: a map call whose region spans at least one chunk goes on to its    *)
(* complete-chunk loop, and the indices the loop handles are exactly the   *)
(* chunks of the table that lie wholly inside the region, whatever the     *)
(* leading and trailing partial chunks are.                                *)
(***************************************************************************)
\* the indices of the chunks of tab wholly inside r
WholeChunks(tab, r) ==
    {i \in ((r.addr - tab.va_base) \div tab.chunk) .. ((r.addr + r.length - tab.va_base) \div tab.chunk) :
        /\ tab.va_base + i * tab.chunk >= r.addr
        /\ tab.va_base + (i + 1) * tab.chunk <= r.addr + r.length}

C13_LoopHandlesWholeChunks ==
    [][(stack # <<>> /\ Top.pc = "chunks" /\ status = "mapping")
          => LET f == stack'[Len(stack')]
             IN  /\ status' = "mapping"
                 /\ (f.start_idx .. (f.start_idx + f.num_chunks - 1)) = WholeChunks(TopTable, Top.r)]_vars

(***************************************************************************)
(* C14: a leaf entry exists only in a table of at least the minimum block  *)
(* level (1 for 4K, 2 for 16K and 64K): at line 143 map decides by the     *)
(* table's level whether its complete chunks are stored as leaves or       *)
(* dispatched to child tables, and goes on to handle them.                 *)
(***************************************************************************)
\* the minimum block level of the claim
ClaimedMinBlockLevel == IF args.tg = 4 * 1024 THEN 1 ELSE 2

LeavesAtBlockLevels ==
    \A t \in DOMAIN allocated :
        \A i \in DOMAIN allocated[t].entries :
            allocated[t].entries[i].kind = "region" => allocated[t].level >= ClaimedMinBlockLevel

C14_LeavesOnlyAtBlockLevels ==
    [][/\ LeavesAtBlockLevels'
       /\ (stack # <<>> /\ status = "mapping" /\ Top.pc = "chunks") => status' = "mapping"]_vars

(***************************************************************************)
(* C15: the code is generated: _mk_asm visits the tables in allocation     *)
(* order and each table's entry indices in ascending order, and covers     *)
(* every stored index exactly once: a child table by one pointer write of  *)
(* the child's address, a leaf by the range loop of a head at or before    *)
(* it; every range lies on leaf indices of the table and writes at index   *)
(* idx + k the address of the leaf stored there (head address + k *        *)
(* chunk).                                                                 *)
(***************************************************************************)
C15_EveryEntryWrittenOnce ==
    CodegenEnded =>
       /\ status = "generated"
       /\
          LET heads == SelectSeq(asm, LAMBDA w : w.kind = "table")
          IN  /\ Len(heads) = Len(allocated)
              /\ asm[1].kind = "table"
              /\ \A k \in DOMAIN heads : heads[k].n = k - 1 /\ heads[k].addr = allocated[k].addr
              /\ \A j \in 1 .. (Len(asm) - 1) :
                    IF asm[j + 1].kind = "table" THEN asm[j + 1].n = asm[j].n + 1
                    ELSE /\ asm[j + 1].n = asm[j].n
                         /\ asm[j].kind # "table" => asm[j + 1].idx > asm[j].idx
              /\ \A t \in DOMAIN allocated :
                    LET tab == allocated[t]
                        ws == SelectSeq(asm, LAMBDA w : w.kind # "table" /\ w.n = t - 1)
                    IN  /\ \A i \in DOMAIN tab.entries :
                              Cardinality({k \in DOMAIN ws : i \in Covered(ws[k])}) = 1
                        /\ \A k \in DOMAIN ws :
                              /\ Covered(ws[k]) \subseteq DOMAIN tab.entries
                              /\ IF ws[k].kind = "next_level_table"
                                 THEN /\ tab.entries[ws[k].idx].kind = "table"
                                      /\ ws[k].addr = allocated[tab.entries[ws[k].idx].id].addr
                                 ELSE \A i \in Covered(ws[k]) :
                                         /\ tab.entries[i].kind = "region"
                                         /\ tab.entries[i].r.addr = ws[k].addr + (i - ws[k].idx) * tab.chunk

(***************************************************************************)
(* C16: every table has a level from start_level to 3 and every child      *)
(* table is one level below its parent: no table of level 4 or more is     *)
(* allocated, because a piece that reaches a level-3 table is a whole      *)
(* number of chunks: a call on a level-3 table dispatches to no child.     *)
(***************************************************************************)
\* the positions of a call waiting in a dispatch to a child (lines 92, 113, 136)
DispatchPcs == {"call92", "call113", "call136"}

C16_LevelsUpTo3 ==
    /\ \A t \in DOMAIN allocated :
          /\ allocated[t].level \in mmu.start_level .. 3
          /\ \A i \in DOMAIN allocated[t].entries :
                allocated[t].entries[i].kind = "table" =>
                    allocated[allocated[t].entries[i].id].level = allocated[t].level + 1
    /\ \A k \in DOMAIN stack :
          allocated[stack[k].t].level = 3 =>
             /\ stack[k].pc \notin DispatchPcs
             /\ stack[k].r.addr % allocated[stack[k].t].chunk = 0
             /\ stack[k].r.length % allocated[stack[k].t].chunk = 0

\* a level-3 table has been allocated below a level-2 table and the call on
\* it has found its piece to be whole chunks
C16_Witness ==
    /\ mmu.start_level < 3
    /\ \E k \in DOMAIN stack :
          /\ allocated[stack[k].t].level = 3
          /\ stack[k].pc = "line143"
          /\ stack[k].num_chunks >= 1
          /\ k > 1
          /\ allocated[stack[k - 1].t].level = 2
          /\ stack[k - 1].pc \in DispatchPcs

(***************************************************************************)
(* C12: in mmu_on run by any number of cores under any interleaving, the   *)
(* zero-fill and the table population are executed by exactly one core,    *)
(* the first to acquire mmu_lock, and only while that core holds the lock; *)
(* every other core reaches the register-programming section only after    *)
(* mmu_init has been set, that is after the tables are fully populated.    *)
(***************************************************************************)
\* the positions of the section after the label end
EndPcs == {"end", "mair", "tcr", "verify", "spin", "sctlr", "stlr", "ret", "returned"}

\* the positions of zero_out_tables .. init_done
InitPcs ==
    {"zero_out_tables", "zero_loop", "load_descriptor_templates", "program", "program_loop", "init_done"}

\* every table was cleared, all its entries, and then received a store for
\* each entry it holds
TablesPopulated ==
    \A n \in DOMAIN mem.tables :
        /\ mem.tables[n].zeroed = mmu.entries_per_table
        /\ mem.tables[n].written = DOMAIN allocated[n + 1].entries

C12_OneCoreInitialises ==
    cpu # <<>> =>
       /\ mem.writers \subseteq {mem.first} \ {0}
       /\ \A c \in Cores :
             cpu[c].pc \in InitPcs => (c = mem.first /\ mem.holder = c /\ mem.mmu_lock = LOCKED)
       /\ ~mem.unlocked
       /\ \A c \in Cores :
             cpu[c].pc \in EndPcs =>
                /\ mem.mmu_init = INITIALISED
                /\ TablesPopulated
                /\ mem.writers = {mem.first}

\* two cores have passed the lock: the first cleared the tables, stored their
\* entries and returned, the other found mmu_init set and is programming its
\* registers
C12_Witness ==
    \E c, d \in Cores :
        /\ c # d
        /\ mem.first = c /\ mem.writers = {c} /\ cpu[c].pc = "returned"
        /\ cpu[d].pc = "tcr" /\ cpu[d].acquired = 1 /\ mem.holder = d
        /\ TablesPopulated
        /\ \E n \in DOMAIN mem.tables : mem.tables[n].written # {}

(***************************************************************************)
(* C17: in mmu_on, when every core keeps executing, every core that enters *)
(* the routine eventually acquires mmu_lock, programs TTBR0, MAIR, TCR and *)
(* SCTLR in that order, releases mmu_lock with the release store and       *)
(* returns; the lock is never left held forever, so no core waits on it    *)
(* forever.                                                                *)
(***************************************************************************)
\* core c has gone through the whole routine
Returned(c) ==
    /\ cpu[c].pc = "returned"
    /\ cpu[c].acquired = 1
    /\ cpu[c].released = 1
    /\ cpu[c].msr = <<[reg |-> "ttbr0", el |-> args.el], [reg |-> "mair", el |-> args.el],
                      [reg |-> "tcr", el |-> args.el], [reg |-> "sctlr", el |-> args.el]>>

\* the cores have entered the routine, each has gone through it, the lock is free
AllReturned == cpu # <<>> /\ mem.mmu_lock = 0 /\ \A c \in Cores : Returned(c)

\* the claim as stated: whatever the CPUs read back from TCR
C17_EveryCoreReturns == <>AllReturned

\* the cores have entered the routine and every CPU reads back from TCR the
\* value the routine wrote
AllReadBack == cpu # <<>> /\ \A c \in Cores : cpu[c].tcr_reads_back

\* C17 as amended: when every CPU reads back from TCR the value written,
\* every core eventually acquires mmu_lock, programs TTBR0, MAIR, TCR and
\* SCTLR in that order, releases the lock and returns
C17_EveryCoreReturnsIfTcrReadsBack == AllReadBack ~> AllReturned

\* a core whose TCR read-back differs never leaves the branch of line 233;
\* it is inside the lock, which it holds for ever
C17_MismatchHoldsLock ==
    \A c \in Cores :
        cpu[c].pc = "spin" => (~cpu[c].tcr_reads_back /\ mem.mmu_lock = LOCKED /\ mem.holder = c)

\* two cores that read TCR back as written have both acquired the lock,
\* programmed the four registers, released the lock and returned
C17_Witness ==
    /\ Cardinality(Cores) = 2
    /\ AllReadBack
    /\ AllReturned
    /\ \E c \in Cores : mem.first # c /\ c \notin mem.writers

\* one core spins on the TCR comparison inside the lock while another
\* sleeps in WFE
C17_HangWitness ==
    \E c, d \in Cores :
        /\ cpu[c].pc = "spin" /\ mem.holder = c
        /\ cpu[d].pc = "wfe" /\ ~cpu[d].event /\ cpu[d].tcr_reads_back

====
